---- MODULE Spec2Model ----
(***************************************************************************)
(* Model of the pipeline notification lambda                               *)
(* (functions/pipeline-lambda/src/main.py and config.py).                  *)
(*                                                                         *)
(* One invocation of handler(event, _context) is followed statement by     *)
(* statement: pc is the line of main.py about to run, frame holds the      *)
(* local variables bound so far, network holds the requests the invocation *)
(* has issued, and result is how the invocation ended (a returned value or *)
(* a raised exception).  Python dicts are functions whose domain is the    *)
(* set of keys present; Python lists are sequences (embeds[0] of the       *)
(* source is embeds[1] here).                                              *)
(***************************************************************************)
EXTENDS Integers, Sequences, FiniteSets, TLC

VARIABLES environ, event, pc, frame, network, result

vars == <<environ, event, pc, frame, network, result>>

(***************************************************************************)
(* Python values                                                           *)
(***************************************************************************)
\* Python's None (what os.getenv and dict.get give for a missing key).
None == "<None>"

\* The empty dict {}.
EmptyDict == <<>>

\* dict.get(key, default)
Get(d, key, default) == IF key \in DOMAIN d THEN d[key] ELSE default

\* Truth value of a str-or-None: None and "" are falsy.
Truthy(v) == v # None /\ v # ""

\* a or b
Or(a, b) == IF Truthy(a) THEN a ELSE b

(***************************************************************************)
(* Module constants of main.py                                             *)
(***************************************************************************)
STATE_COLORS_swapped ==
    [k \in {"SUCCEEDED", "FAILED", "STARTED", "STOPPING"} |->
        CASE k = "SUCCEEDED" -> 15158332
          [] k = "FAILED"    -> 3066993
          [] k = "STARTED"   -> 3447003
          [] k = "STOPPING"  -> 15965202]

STATE_COLORS ==
    [k \in {"SUCCEEDED", "FAILED", "STARTED", "STOPPING"} |->
        CASE k = "SUCCEEDED" -> 3066993      \* 0x2ECC71 green
          [] k = "FAILED"    -> 15158332     \* 0xE74C3C red
          [] k = "STARTED"   -> 3447003      \* 0x3498DB blue
          [] k = "STOPPING"  -> 15965202]    \* 0xF39C12 orange

\* 0x95A5A6, the default of STATE_COLORS.get(state, 0x95A5A6)
DEFAULT_COLOR == 9807270

DISCORD_WEBHOOKS_URL == "DISCORD_WEBHOOKS_URL"

PIPELINE_NAME == "PIPELINE_NAME"

METHOD == "POST"

HEADERS == [k \in {"Content-Type"} |-> "application/json"]

(***************************************************************************)
(* Inputs: the environment, the event, the endpoint's answer               *)
(***************************************************************************)
\* The dicts with at most the key k, its value drawn from V.
Opt(k, V) == {EmptyDict} \cup {k :> v : v \in V}

UrlValues == {"", "https://hooks.example/x"}

NameValues == {"", "build-pipeline", "deploy-pipeline"}

Environs ==
    {u @@ n : u \in Opt(DISCORD_WEBHOOKS_URL, UrlValues),
              n \in Opt(PIPELINE_NAME, NameValues)}

StateValues ==
    {"", "SUCCEEDED", "FAILED", "STARTED", "STOPPING",
     "failed", " FAILED ", "CANCELED"}

Triggers ==
    {a @@ b @@ c @@ d :
        a \in Opt("author-display-name", {"", "Alice"}),
        b \in Opt("author-id", {"", "bob"}),
        c \in Opt("commit-id", {"abc123"}),
        d \in Opt("commit-message", {"fix build"})}

Details ==
    {s @@ t : s \in Opt("state", StateValues),
              t \in Opt("execution-trigger", Triggers)}

Events ==
    {t @@ d : t \in Opt("time", {"2024-01-01T00:00:00Z"}),
              d \in Opt("detail", Details)}

\* Status codes the endpoint may answer with.
StatusCodes == {200, 204, 301, 304, 400, 404, 500, 503}

\* What requests.request does: it returns a response, or raises because no
\* response could be obtained.
Outcomes ==
    {[kind |-> "response", status_code |-> s] : s \in StatusCodes}
        \cup {[kind |-> "raise", exc |-> "ConnectionError"]}

(***************************************************************************)
(* How an invocation ends                                                  *)
(***************************************************************************)
Running == [kind |-> "running"]

Return(value) == [kind |-> "return", value |-> value]

Raise(exc) == [kind |-> "raise", exc |-> exc]

(***************************************************************************)
(* config.py                                                               *)
(***************************************************************************)
WebhookConfig(url, pipeline_name) == [url |-> url, pipeline_name |-> pipeline_name]

get_pipeline_url_wrong_region(self) ==
    "https://us-west-2.console.aws.amazon.com/codesuite/codepipeline/pipelines/"
        \o self.pipeline_name \o "/view?region=us-west-2"

get_pipeline_url(self) ==
    "https://us-east-1.console.aws.amazon.com/codesuite/codepipeline/pipelines/"
        \o self.pipeline_name \o "/view?region=us-east-1"

(***************************************************************************)
(* main.py: the expressions of handler                                     *)
(***************************************************************************)
\* os.getenv(name)
getenv(name) == Get(environ, name, None)

ConfigMissing_both(webhook_url, pipeline_name) ==
    ~Truthy(webhook_url) /\ ~Truthy(pipeline_name)

\* not webhook_url or not pipeline_name
ConfigMissing(webhook_url, pipeline_name) ==
    ~Truthy(webhook_url) \/ ~Truthy(pipeline_name)

\* event.get("detail", {})
DetailOf(e) == Get(e, "detail", EmptyDict)

StateOf_default_unknown(detail) == Get(detail, "state", "UNKNOWN")

\* detail.get("state", "")
StateOf(detail) == Get(detail, "state", "")

\* detail.get("execution-trigger", {})
TriggerOf(detail) == Get(detail, "execution-trigger", EmptyDict)

\* trigger.get("author-display-name") or trigger.get("author-id", "Unknown")
AuthorOf(trigger) ==
    Or(Get(trigger, "author-display-name", None),
       Get(trigger, "author-id", "Unknown"))

\* trigger.get("commit-id", "N/A")
CommitIdOf(trigger) == Get(trigger, "commit-id", "N/A")

\* trigger.get("commit-message", "N/A")
CommitMessageOf(trigger) == Get(trigger, "commit-message", "N/A")

ColorOf(state) == Get(STATE_COLORS, state, DEFAULT_COLOR)

TimestampOf_empty_default(e) == Get(e, "time", "")

\* event.get("time")
TimestampOf(e) == Get(e, "time", None)

Field(name, value, inline) == [name |-> name, value |-> value, inline |-> inline]

\* The payload dict literal.
PayloadOf(pipeline_name, state, author, commit_id, commit_message, pipeline_url, e) ==
    [username |-> "AWS Pipelines",
     content  |-> "Pipeline **" \o pipeline_name
                     \o "** status changed to **" \o state \o "**",
     embeds   |-> <<
        [title       |-> pipeline_name,
         description |-> "State: **" \o state \o "**",
         color       |-> ColorOf(state),
         fields      |-> <<
            Field("Author", author, TRUE),
            Field("Commit ID", commit_id, TRUE),
            Field("Commit Message", commit_message, FALSE),
            Field("Pipeline Link",
                  "[View Pipeline](" \o pipeline_url \o ")", FALSE)>>,
         timestamp   |-> TimestampOf(e)]>>]

\* The locals bound between the state check and the request.
LocalsFor(webhook_cfg, pipeline_name, detail, state, e) ==
    LET trigger        == TriggerOf(detail)
        author         == AuthorOf(trigger)
        commit_id      == CommitIdOf(trigger)
        commit_message == CommitMessageOf(trigger)
        pipeline_url   == get_pipeline_url(webhook_cfg)
    IN  [trigger        |-> trigger,
         author         |-> author,
         commit_id      |-> commit_id,
         commit_message |-> commit_message,
         pipeline_url   |-> pipeline_url,
         payload        |-> PayloadOf(pipeline_name, state, author, commit_id,
                                      commit_message, pipeline_url, e)]

\* resp.raise_for_status() raises HTTPError for 4xx and 5xx only.
RaisesForStatus(status_code) == 400 <= status_code /\ status_code < 600

(***************************************************************************)
(* main.py: handler, statement by statement                                *)
(***************************************************************************)
Init ==
    /\ environ = EmptyDict
    /\ event = EmptyDict
    /\ pc = "idle"
    /\ frame = EmptyDict
    /\ network = <<>>
    /\ result = Running

\* The platform invokes handler(event, _context) in some environment.
Invoke(env, e) ==
    /\ pc = "idle"
    /\ environ' = env
    /\ event' = e
    /\ pc' = "line26"
    /\ frame' = EmptyDict
    /\ network' = <<>>
    /\ result' = Running

\* webhook_url = os.getenv(...); pipeline_name = os.getenv(...)
ReadEnv ==
    /\ pc = "line26"
    /\ frame' = [webhook_url   |-> getenv(DISCORD_WEBHOOKS_URL),
                 pipeline_name |-> getenv(PIPELINE_NAME)]
    /\ pc' = "line29"
    /\ UNCHANGED <<environ, event, network, result>>

CheckConfig_state_first ==
    /\ pc = "line29"
    /\ IF ~Truthy(StateOf(DetailOf(event)))
       THEN /\ result' = Return([status  |-> "error",
                                 message |-> "Missing status in event body."])
            /\ pc' = "done"
            /\ UNCHANGED frame
       ELSE IF ConfigMissing(frame.webhook_url, frame.pipeline_name)
       THEN /\ result' = Return([status  |-> "error",
                                 message |-> "Missing environment variables."])
            /\ pc' = "done"
            /\ UNCHANGED frame
       ELSE /\ frame' = frame @@
                  [webhook_cfg |-> WebhookConfig(frame.webhook_url,
                                                 frame.pipeline_name)]
            /\ pc' = "line36"
            /\ UNCHANGED result
    /\ UNCHANGED <<environ, event, network>>

\* if not webhook_url or not pipeline_name: return the configuration error;
\* webhook_cfg = WebhookConfig(webhook_url, pipeline_name)
CheckConfig ==
    /\ pc = "line29"
    /\ IF ConfigMissing(frame.webhook_url, frame.pipeline_name)
       THEN /\ result' = Return([status  |-> "error",
                                 message |-> "Missing environment variables."])
            /\ pc' = "done"
            /\ UNCHANGED frame
       ELSE /\ frame' = frame @@
                  [webhook_cfg |-> WebhookConfig(frame.webhook_url,
                                                 frame.pipeline_name)]
            /\ pc' = "line36"
            /\ UNCHANGED result
    /\ UNCHANGED <<environ, event, network>>

\* detail = ...; state = ...; if not state: return the validation error
ReadState ==
    /\ pc = "line36"
    /\ LET detail == DetailOf(event)
           state  == StateOf(detail)
       IN  /\ frame' = frame @@ [detail |-> detail, state |-> state]
           /\ IF ~Truthy(state)
              THEN /\ result' = Return([status  |-> "error",
                                        message |-> "Missing status in event body."])
                   /\ pc' = "done"
              ELSE /\ pc' = "line43"
                   /\ UNCHANGED result
    /\ UNCHANGED <<environ, event, network>>

\* trigger, author, commit_id, commit_message, pipeline_url, payload
BuildPayload ==
    /\ pc = "line43"
    /\ frame' = frame @@ LocalsFor(frame.webhook_cfg, frame.pipeline_name,
                                   frame.detail, frame.state, event)
    /\ pc' = "line75"
    /\ UNCHANGED <<environ, event, network, result>>

\* requests.request(METHOD, webhook_cfg.url, headers=HEADERS, json=payload):
\* the request goes out.
SendRequest ==
    /\ pc = "line75"
    /\ network' = Append(network, [method  |-> METHOD,
                                   url     |-> frame.webhook_cfg.url,
                                   headers |-> HEADERS,
                                   json    |-> frame.payload])
    /\ pc' = "line75_wait"
    /\ UNCHANGED <<environ, event, frame, result>>

ReceiveResponse_retry(o) ==
    /\ pc = "line75_wait"
    /\ IF o.kind = "raise"
       THEN /\ result' = Raise(o.exc)
            /\ pc' = "done"
            /\ UNCHANGED frame
       ELSE /\ frame' = [k \in DOMAIN frame \cup {"resp"} |->
                           IF k = "resp" THEN [status_code |-> o.status_code]
                                         ELSE frame[k]]
            /\ IF RaisesForStatus(o.status_code)
               THEN /\ pc' = "line75"
                    /\ UNCHANGED result
               ELSE /\ result' = Return([status |-> "sent"])
                    /\ pc' = "done"
    /\ UNCHANGED <<environ, event, network>>

\* requests.request returns or raises; then resp.raise_for_status(), the
\* return of {"status": "sent"}, or the except clause that re-raises.
ReceiveResponse(o) ==
    /\ pc = "line75_wait"
    /\ IF o.kind = "raise"
       THEN /\ result' = Raise(o.exc)
            /\ UNCHANGED frame
       ELSE /\ frame' = frame @@ [resp |-> [status_code |-> o.status_code]]
            /\ IF RaisesForStatus(o.status_code)
               THEN result' = Raise("HTTPError")
               ELSE result' = Return([status |-> "sent"])
    /\ pc' = "done"
    /\ UNCHANGED <<environ, event, network>>

\* The invocation is over: the platform has the returned value or the
\* exception, and the locals are gone.
Exit ==
    /\ pc = "done"
    /\ environ' = EmptyDict
    /\ event' = EmptyDict
    /\ pc' = "idle"
    /\ frame' = EmptyDict
    /\ network' = <<>>
    /\ result' = Running

Next ==
    \/ \E env \in Environs, e \in Events : Invoke(env, e)
    \/ ReadEnv
    \/ CheckConfig
    \/ ReadState
    \/ BuildPayload
    \/ SendRequest
    \/ \E o \in Outcomes : ReceiveResponse(o)
    \/ Exit

Spec == Init /\ [][Next]_vars

(***************************************************************************)
(* Properties                                                              *)
(***************************************************************************)
\* The invocation's inputs, as the caller supplied them.
ConfigPresent ==
    /\ Truthy(Get(environ, DISCORD_WEBHOOKS_URL, None))
    /\ Truthy(Get(environ, PIPELINE_NAME, None))

StatePresent ==
    /\ "detail" \in DOMAIN event
    /\ "state" \in DOMAIN event["detail"]
    /\ event["detail"]["state"] # ""

InvocationStarted == pc # "idle"

ConfigError == [status |-> "error", message |-> "Missing environment variables."]

ValidationError == [status |-> "error", message |-> "Missing status in event body."]

IsErrorValue(r) ==
    /\ r.kind = "return"
    /\ DOMAIN r.value = {"status", "message"}
    /\ r.value["status"] = "error"

\* The four labelled fields of a request's payload.
FieldsOf(req) == req.json.embeds[1].fields

EmbedOf(req) == req.json.embeds[1]

\* C1: whenever the destination URL or the pipeline name is absent or empty,
\* the invocation issues no request, raises nothing, and ends by returning
\* {"status": "error", "message": ...}.
C1_ConfigErrorNoRequest ==
    (InvocationStarted /\ ~ConfigPresent) =>
        /\ network = <<>>
        /\ result.kind # "raise"
        /\ (pc = "done" => IsErrorValue(result))

C1_Witness ==
    /\ pc = "done"
    /\ Truthy(Get(environ, DISCORD_WEBHOOKS_URL, None))
    /\ Get(environ, PIPELINE_NAME, None) = ""
    /\ StatePresent
    /\ IsErrorValue(result)

\* C2: with both configuration values non-empty, an event whose detail.state
\* is missing (no detail, or no state key) or empty makes the invocation end
\* by returning {"status": "error", "message": ...}, without raising and
\* without issuing a request.
C2_ValidationErrorNoRequest ==
    (InvocationStarted /\ ConfigPresent /\ ~StatePresent) =>
        /\ network = <<>>
        /\ result.kind # "raise"
        /\ (pc = "done" => IsErrorValue(result))

C2_Witness ==
    /\ pc = "done"
    /\ ConfigPresent
    /\ "detail" \in DOMAIN event
    /\ "state" \notin DOMAIN event["detail"]
    /\ "execution-trigger" \in DOMAIN event["detail"]
    /\ IsErrorValue(result)

\* C3: when the endpoint answers with a status outside 200..299, the
\* invocation ends by raising the delivery error.
C3_NonSuccessRaises ==
    (pc = "done" /\ "resp" \in DOMAIN frame
        /\ frame.resp.status_code \notin 200..299) =>
            result = Raise("HTTPError")

\* C4: an invocation issues at most one POST request; exactly one once it
\* has ended with both configuration values and detail.state non-empty; and
\* a request exists only after both checks have passed.
C4_AtMostOneRequest ==
    /\ Len(network) <= 1
    /\ (pc = "done" /\ ConfigPresent /\ StatePresent) => Len(network) = 1
    /\ network # <<>> =>
        /\ ConfigPresent
        /\ StatePresent
        /\ pc \in {"line75_wait", "done"}
        /\ "webhook_cfg" \in DOMAIN frame
        /\ Truthy(frame.state)
        /\ network[1].method = "POST"
        /\ network[1].url = environ[DISCORD_WEBHOOKS_URL]

C4_Witness ==
    /\ pc = "done"
    /\ Len(network) = 1
    /\ result = Raise("HTTPError")

\* C5: the invocation returns {"status": "sent"} exactly when the request
\* was issued and answered with a 2xx status.
C5_SentIffSuccess ==
    pc = "done" =>
        (("resp" \in DOMAIN frame /\ frame.resp.status_code \in 200..299)
            <=> result = Return([status |-> "sent"]))

\* C6: the colour of the payload is 0x2ECC71 for exactly "SUCCEEDED",
\* 0xE74C3C for exactly "FAILED", 0x3498DB for exactly "STARTED", 0xF39C12
\* for exactly "STOPPING", and 0x95A5A6 for every other state string.
C6_ColorMapping ==
    \A i \in DOMAIN network :
        EmbedOf(network[i]).color =
            CASE event["detail"]["state"] = "SUCCEEDED" -> 3066993
              [] event["detail"]["state"] = "FAILED"    -> 15158332
              [] event["detail"]["state"] = "STARTED"   -> 3447003
              [] event["detail"]["state"] = "STOPPING"  -> 15965202
              [] OTHER                                  -> 9807270

C6_Witness ==
    /\ network # <<>>
    /\ event["detail"]["state"] = "failed"
    /\ EmbedOf(network[1]).color = 9807270

\* A usable author: the key is there and its value is not empty.
Usable(d, k) == k \in DOMAIN d /\ d[k] # ""

\* C7: in every payload sent, Author is the display name when the trigger
\* supplies one, otherwise the author id when it supplies one, otherwise
\* "Unknown"; Commit ID and Commit Message are the trigger's values, or
\* "N/A" when absent.
C7_AuthorFallback ==
    \A i \in DOMAIN network :
        LET trigger == Get(event["detail"], "execution-trigger", EmptyDict)
            fields  == FieldsOf(network[i])
        IN  /\ fields[1].name = "Author"
            /\ fields[1].value =
                 IF Usable(trigger, "author-display-name")
                 THEN trigger["author-display-name"]
                 ELSE IF Usable(trigger, "author-id")
                 THEN trigger["author-id"]
                 ELSE "Unknown"
            /\ fields[2].name = "Commit ID"
            /\ fields[2].value =
                 IF "commit-id" \in DOMAIN trigger
                 THEN trigger["commit-id"] ELSE "N/A"
            /\ fields[3].name = "Commit Message"
            /\ fields[3].value =
                 IF "commit-message" \in DOMAIN trigger
                 THEN trigger["commit-message"] ELSE "N/A"

\* The Pipeline Link value of the payload handler builds for event e under
\* the configuration (url, name).
LinkFor(url, name, e) ==
    LocalsFor(WebhookConfig(url, name), name, DetailOf(e),
              StateOf(DetailOf(e)), e).payload.embeds[1].fields[4].value

\* C8: in every payload sent, Pipeline Link is "[View Pipeline](<url>)" with
\* <url> the fixed console template holding the configured pipeline name,
\* and every other event that passes validation gives the same value under
\* the same configuration.
C8_PipelineLink ==
    \A i \in DOMAIN network :
        /\ FieldsOf(network[i])[4].name = "Pipeline Link"
        /\ FieldsOf(network[i])[4].value =
             "[View Pipeline](https://us-east-1.console.aws.amazon.com/codesuite/codepipeline/pipelines/"
                \o environ[PIPELINE_NAME] \o "/view?region=us-east-1)"
        /\ pc = "line75_wait" =>
             \A e2 \in Events :
                Truthy(StateOf(DetailOf(e2))) =>
                    LinkFor(environ[DISCORD_WEBHOOKS_URL],
                            environ[PIPELINE_NAME], e2)
                        = FieldsOf(network[i])[4].value

C8_Witness ==
    /\ pc = "line75_wait"
    /\ network # <<>>
    /\ environ[PIPELINE_NAME] = "deploy-pipeline"
    /\ "execution-trigger" \in DOMAIN event["detail"]
    /\ FieldsOf(network[1])[4].value =
         "[View Pipeline](https://us-east-1.console.aws.amazon.com/codesuite/codepipeline/pipelines/deploy-pipeline/view?region=us-east-1)"

\* The timestamp of the payload handler builds for event e under the
\* configuration (url, name).
TimestampFor(url, name, e) ==
    LocalsFor(WebhookConfig(url, name), name, DetailOf(e),
              StateOf(DetailOf(e)), e).payload.embeds[1].timestamp

\* C9: in every payload sent, the timestamp is the event's time value
\* unchanged, or null when the event has no time; events and configurations
\* that differ in anything but time give the same timestamp.
C9_Timestamp ==
    \A i \in DOMAIN network :
        /\ EmbedOf(network[i]).timestamp =
             IF "time" \in DOMAIN event THEN event["time"] ELSE None
        /\ pc = "line75_wait" =>
             \A e2 \in Events, n \in NameValues \ {""} :
                (/\ Truthy(StateOf(DetailOf(e2)))
                 /\ ("time" \in DOMAIN e2) = ("time" \in DOMAIN event)
                 /\ ("time" \in DOMAIN e2 => e2["time"] = event["time"])) =>
                    TimestampFor(environ[DISCORD_WEBHOOKS_URL], n, e2)
                        = EmbedOf(network[i]).timestamp

C9_Witness ==
    /\ pc = "line75_wait"
    /\ network # <<>>
    /\ "time" \notin DOMAIN event
    /\ EmbedOf(network[1]).timestamp = None

\* C10: when a configuration value and detail.state are both missing or
\* empty the invocation returns the configuration error, and it returns the
\* validation error only when both configuration values are non-empty.
C10_ConfigCheckedFirst ==
    pc = "done" =>
        /\ (~ConfigPresent /\ ~StatePresent) => result = Return(ConfigError)
        /\ result = Return(ValidationError) => ConfigPresent

C10_Witness ==
    /\ pc = "done"
    /\ ~ConfigPresent
    /\ ~StatePresent
    /\ result = Return(ConfigError)

====
